---- MODULE Spec2Model ----
(***************************************************************************)
(* A model of src/app.py: a Streamlit form application that records        *)
(* purchases in a Google Sheet (gspread worksheet), with keyword search,   *)
(* row update/delete by physical row index, a memoised read (load_df) and  *)
(* pandas aggregation for the analytics tab.                               *)
(*                                                                         *)
(* Text is modelled as a sequence of one-character strings, so that        *)
(* str.lower() and the substring test of search_rows are computed.         *)
(* Floats are modelled as exact reduced fractions [n, d].                  *)
(***************************************************************************)
EXTENDS Integers, Sequences, FiniteSets, TLC

VARIABLES
    store,    \* the worksheet: the rows get_all_values returns, row 1 first
    cache,    \* the st.cache_data entry of load_df
    sess,     \* per session: the script run's position and its local values
    hist,     \* history of the calls made, for stating the properties
    calc,     \* the cost computation: widget values, result, row built
    probe,    \* search_rows applied to given sheet values and keywords
    agg       \* the analytics tab applied to a given dataframe

vars == <<store, cache, sess, hist, calc, probe, agg>>

sessionVars == <<store, cache, sess, hist>>

----------------------------------------------------------------------------
(* Numbers *)

Max(a, b) == IF a >= b THEN a ELSE b

Abs(a) == IF a < 0 THEN -a ELSE a

RECURSIVE GCD(_, _)
GCD(a, b) == IF b = 0 THEN a ELSE GCD(b, a % b)

\* A float as an exact fraction in lowest terms with a positive denominator.
Rat(n, d) ==
    LET g == GCD(Abs(n), Abs(d))
        s == IF d < 0 THEN -1 ELSE 1
    IN  [n |-> (s * n) \div g, d |-> (s * d) \div g]

RatInt(i) == [n |-> i, d |-> 1]

RatMul(x, y) == Rat(x.n * y.n, x.d * y.d)

RatSub(x, y) == Rat(x.n * y.d - y.n * x.d, x.d * y.d)

RatLE(x, y) == x.n * y.d <= y.n * x.d

RatMax(x, y) == IF RatLE(y, x) THEN x ELSE y

Zero == RatInt(0)

\* Digits kept after the decimal point in a cell's text.
FracDigits == 2

----------------------------------------------------------------------------
(* The cost computation of the Add tab and of the Edit expander *)

\* tab_add_cost with the divisor left as entered (quantity / units_per_pack).
tab_add_cost_noclamp(quantity, units_per_pack, price_per_pack, amount_paid) ==
    IF units_per_pack = 0
    THEN [error |-> "ZeroDivisionError", total_cost |-> Zero, outstanding |-> Zero]
    ELSE LET total_cost == RatMul(price_per_pack, Rat(quantity, units_per_pack))
         IN  [error |-> "none",
              total_cost |-> total_cost,
              outstanding |-> RatMax(RatSub(total_cost, amount_paid), Zero)]

\* total_cost = price_per_pack * (quantity / max(units_per_pack, 1))
\* outstanding = max(total_cost - amount_paid, 0.0)
\* Python raises nothing here: the divisor is at least 1.
tab_add_cost(quantity, units_per_pack, price_per_pack, amount_paid) ==
    LET total_cost == RatMul(price_per_pack, Rat(quantity, Max(units_per_pack, 1)))
    IN  [error |-> "none",
         total_cost |-> total_cost,
         outstanding |-> RatMax(RatSub(total_cost, amount_paid), Zero)]

\* tab_view_cost with the balance left unclamped (e_total - e_paid).
tab_view_cost_unclamped(e_qty, e_units, e_price, e_paid) ==
    LET e_total == RatMul(e_price, Rat(e_qty, Max(e_units, 1)))
    IN  [error |-> "none",
         total_cost |-> e_total,
         outstanding |-> RatSub(e_total, e_paid)]

\* e_total = e_price * (e_qty / max(e_units, 1))
\* e_outstanding = max(e_total - e_paid, 0.0)
tab_view_cost(e_qty, e_units, e_price, e_paid) ==
    LET e_total == RatMul(e_price, Rat(e_qty, Max(e_units, 1)))
    IN  [error |-> "none",
         total_cost |-> e_total,
         outstanding |-> RatMax(RatSub(e_total, e_paid), Zero)]

\* The list built under "Save Entry" (the text fields are left to SaveEntry).
tab_add_row(in_date, brand, quantity, units_per_pack, price_per_pack, payment, amount_paid, vendor, notes) ==
    LET c == tab_add_cost(quantity, units_per_pack, price_per_pack, amount_paid)
    IN  [Date |-> in_date, Brand |-> brand, Quantity |-> quantity,
         UnitsPerPack |-> units_per_pack, PricePerPack |-> price_per_pack,
         TotalCost |-> c.total_cost, PaymentMethod |-> payment,
         AmountPaid |-> amount_paid, Outstanding |-> c.outstanding,
         Vendor |-> vendor, Notes |-> notes]

\* The list built under "Update row".
tab_view_new_row(e_date, e_brand, e_qty, e_units, e_price, e_payment, e_paid, e_vendor, e_notes) ==
    LET c == tab_view_cost(e_qty, e_units, e_price, e_paid)
    IN  [Date |-> e_date, Brand |-> e_brand, Quantity |-> e_qty,
         UnitsPerPack |-> e_units, PricePerPack |-> e_price,
         TotalCost |-> c.total_cost, PaymentMethod |-> e_payment,
         AmountPaid |-> e_paid, Outstanding |-> c.outstanding,
         Vendor |-> e_vendor, Notes |-> e_notes]

----------------------------------------------------------------------------
(* Text: a Python str is a sequence of one-character strings *)

Uppers == <<"A","B","C","D","E","F","G","H","I","J","K","L","M",
            "N","O","P","Q","R","S","T","U","V","W","X","Y","Z">>

Lowers == <<"a","b","c","d","e","f","g","h","i","j","k","l","m",
            "n","o","p","q","r","s","t","u","v","w","x","y","z">>

\* str.lower() on one character (ASCII letters).
LowerChar(c) ==
    IF \E i \in 1..26 : Uppers[i] = c
    THEN Lowers[CHOOSE i \in 1..26 : Uppers[i] = c]
    ELSE c

\* str.lower()
Lower(t) == [i \in 1..Len(t) |-> LowerChar(t[i])]

\* Python's "k in t" on strings: k is a contiguous substring of t
\* (the empty string is in every string).
Contains(k, t) ==
    \E i \in 0..(Len(t) - Len(k)) : SubSeq(t, i + 1, i + Len(k)) = k

\* "if keyword" taken for every keyword.
TruthyAlways(t) == TRUE

\* bool(keyword) of a str: false only for the empty string.
Truthy(t) == Len(t) > 0

Digit(n) == <<"0","1","2","3","4","5","6","7","8","9">>[n + 1]

\* Decimal text of an integer.
RECURSIVE IntText(_)
IntText(n) ==
    IF n < 0 THEN <<"-">> \o IntText(-n)
    ELSE IF n < 10 THEN <<Digit(n)>>
    ELSE IntText(n \div 10) \o <<Digit(n % 10)>>

\* Fraction digits of r / d by long division, at most k of them.
RECURSIVE FracText(_, _, _)
FracText(r, d, k) ==
    IF r = 0 \/ k = 0 THEN <<>>
    ELSE <<Digit((r * 10) \div d)>> \o FracText((r * 10) % d, d, k - 1)

\* The cell text of a number written to the sheet (non-negative values).
NumText(x) ==
    IF x.n % x.d = 0 THEN IntText(x.n \div x.d)
    ELSE IntText(x.n \div x.d) \o <<".">> \o FracText(x.n % x.d, x.d, FracDigits)

----------------------------------------------------------------------------
(* The sheet *)

DEFAULT_COLUMNS == <<
    <<"D","a","t","e">>,
    <<"B","r","a","n","d">>,
    <<"Q","u","a","n","t","i","t","y">>,
    <<"U","n","i","t","s","P","e","r","P","a","c","k">>,
    <<"P","r","i","c","e","P","e","r","P","a","c","k">>,
    <<"T","o","t","a","l","C","o","s","t">>,
    <<"P","a","y","m","e","n","t","M","e","t","h","o","d">>,
    <<"A","m","o","u","n","t","P","a","i","d">>,
    <<"O","u","t","s","t","a","n","d","i","n","g">>,
    <<"V","e","n","d","o","r">>,
    <<"N","o","t","e","s">> >>

NCols == Len(DEFAULT_COLUMNS)

\* The cells a row list becomes once written: every value as its text.
RowCells(row) ==
    << row.Date, row.Brand, IntText(row.Quantity), IntText(row.UnitsPerPack),
       NumText(row.PricePerPack), NumText(row.TotalCost), row.PaymentMethod,
       NumText(row.AmountPaid), NumText(row.Outstanding), row.Vendor, row.Notes >>

\* search_rows with the keyword compared as typed (keyword in str(cell).lower()).
RECURSIVE search_loop_keyword_as_typed(_, _, _, _)
search_loop_keyword_as_typed(data, keyword, i, matches) ==
    IF i > Len(data) THEN matches
    ELSE IF i = 1 THEN search_loop_keyword_as_typed(data, keyword, i + 1, matches)
    ELSE IF \E j \in 1..Len(data[i]) : Contains(keyword, Lower(data[i][j]))
         THEN search_loop_keyword_as_typed(data, keyword, i + 1, Append(matches, <<i, data[i]>>))
         ELSE search_loop_keyword_as_typed(data, keyword, i + 1, matches)

\* search_rows without the "if i == 1: continue" of the loop.
RECURSIVE search_loop_with_header(_, _, _, _)
search_loop_with_header(data, keyword, i, matches) ==
    IF i > Len(data) THEN matches
    ELSE IF \E j \in 1..Len(data[i]) : Contains(Lower(keyword), Lower(data[i][j]))
         THEN search_loop_with_header(data, keyword, i + 1, Append(matches, <<i, data[i]>>))
         ELSE search_loop_with_header(data, keyword, i + 1, matches)

\* The loop of search_rows: for i, row in enumerate(data, start=1), the header
\* (i == 1) skipped, (i, row) appended when any cell contains the keyword,
\* both lower-cased.
RECURSIVE search_loop(_, _, _, _)
search_loop(data, keyword, i, matches) ==
    IF i > Len(data) THEN matches
    ELSE IF i = 1 THEN search_loop(data, keyword, i + 1, matches)
    ELSE IF \E j \in 1..Len(data[i]) : Contains(Lower(keyword), Lower(data[i][j]))
         THEN search_loop(data, keyword, i + 1, Append(matches, <<i, data[i]>>))
         ELSE search_loop(data, keyword, i + 1, matches)

search_rows_keyword_as_typed(data, keyword) ==
    search_loop_keyword_as_typed(data, keyword, 1, <<>>)

search_rows_with_header(data, keyword) == search_loop_with_header(data, keyword, 1, <<>>)

\* search_rows with enumerate(data) counting from 0.
search_rows_from_zero(data, keyword) ==
    LET r == search_loop(data, keyword, 1, <<>>)
    IN  [m \in 1..Len(r) |-> <<r[m][1] - 1, r[m][2]>>]

\* search_rows on the values get_all_values returned.
search_rows(data, keyword) == search_loop(data, keyword, 1, <<>>)

----------------------------------------------------------------------------
(* Values that stand for "nothing here" in the variables a specification
   does not use *)

NoCache == [valid |-> FALSE, df |-> <<>>]

CalcIdle == [op |-> "idle"]

ProbeIdle == [done |-> {}]

AggIdle == [op |-> "idle"]

SessionsIdle ==
    /\ store = <<>>
    /\ cache = NoCache
    /\ sess = <<>>
    /\ hist = <<>>

----------------------------------------------------------------------------
(* The cost computation, applied to widget values *)

Date1 == <<"2","0","2","4","-","0","1","-","0","1">>

Date2 == <<"2","0","2","4","-","0","1","-","0","2">>

Cash == <<"C","a","s","h">>

Credit == <<"C","r","e","d","i","t">>

Empty == <<>>

CalcQuantities == {1, 10, 20}

CalcUnits == {-1, 0, 1, 20}

CalcPrices == {RatInt(0), Rat(1, 2), RatInt(180), RatInt(200)}

CalcPaid == {RatInt(0), RatInt(50), RatInt(200)}

NoResult == [error |-> "unset", total_cost |-> Zero, outstanding |-> Zero]

NoRow == tab_add_row(Empty, Empty, 0, 0, Zero, Empty, Zero, Empty, Empty)

CalcInit ==
    /\ calc \in [op : {"input"}, q : CalcQuantities, u : CalcUnits,
                 p : CalcPrices, a : CalcPaid, out : {NoResult}, row : {NoRow}]
    /\ probe = ProbeIdle
    /\ agg = AggIdle
    /\ SessionsIdle

\* The expression of the Add tab (lines 186-187), whatever the values.
CalcAdd ==
    /\ calc.op = "input"
    /\ calc' = [calc EXCEPT !.op = "calc_add",
                            !.out = tab_add_cost(calc.q, calc.u, calc.p, calc.a)]
    /\ UNCHANGED <<store, cache, sess, hist, probe, agg>>

\* The expression of the Edit expander (lines 248-249), whatever the values.
CalcEdit ==
    /\ calc.op = "input"
    /\ calc' = [calc EXCEPT !.op = "calc_edit",
                            !.out = tab_view_cost(calc.q, calc.u, calc.p, calc.a)]
    /\ UNCHANGED <<store, cache, sess, hist, probe, agg>>

\* What st.number_input lets through: min_value=1 for the quantity and the
\* units per pack, min_value=0.0 for the price and the amount paid.
WidgetValues(q, u, p, a) == q >= 1 /\ u >= 1 /\ RatLE(Zero, p) /\ RatLE(Zero, a)

\* "Save Entry": the row handed to append_row.
CalcSaveEntry ==
    /\ calc.op = "input"
    /\ WidgetValues(calc.q, calc.u, calc.p, calc.a)
    /\ \E payment \in {Cash, Credit} :
         calc' = [calc EXCEPT !.op = "save",
                    !.row = tab_add_row(Date1, Empty, calc.q, calc.u, calc.p,
                                        payment, calc.a, Empty, Empty)]
    /\ UNCHANGED <<store, cache, sess, hist, probe, agg>>

\* "Update row": the row handed to replace_row.
CalcUpdateRow ==
    /\ calc.op = "input"
    /\ WidgetValues(calc.q, calc.u, calc.p, calc.a)
    /\ \E e_payment \in {Cash, Credit} :
         calc' = [calc EXCEPT !.op = "update",
                    !.row = tab_view_new_row(Date1, Empty, calc.q, calc.u, calc.p,
                                             e_payment, calc.a, Empty, Empty)]
    /\ UNCHANGED <<store, cache, sess, hist, probe, agg>>

CalcNext == CalcAdd \/ CalcEdit \/ CalcSaveEntry \/ CalcUpdateRow

SpecCalc == CalcInit /\ [][CalcNext]_vars

\* C5: every row that Save Entry hands to append_row and every row that
\* Update row hands to replace_row has TotalCost = PricePerPack * Quantity /
\* UnitsPerPack and Outstanding = max(TotalCost - AmountPaid, 0) >= 0, computed
\* from the widget values; (10, 20, 200, 50) gives 100 and 50, and
\* (20, 20, 180, 200) gives 180 and 0.
C5_DerivedFieldsRecomputed ==
    calc.op \in {"save", "update"} =>
        LET r == calc.row
            total == Rat(r.PricePerPack.n * r.Quantity,
                         r.PricePerPack.d * r.UnitsPerPack)
            diff == RatSub(total, r.AmountPaid)
        IN  /\ r.Quantity = calc.q /\ r.UnitsPerPack = calc.u
            /\ r.PricePerPack = calc.p /\ r.AmountPaid = calc.a
            /\ r.TotalCost = total
            /\ r.Outstanding = (IF diff.n >= 0 THEN diff ELSE Zero)
            /\ r.Outstanding.n >= 0
            /\ (calc.q = 10 /\ calc.u = 20 /\ calc.p = RatInt(200) /\ calc.a = RatInt(50)
                  => r.TotalCost = RatInt(100) /\ r.Outstanding = RatInt(50))
            /\ (calc.q = 20 /\ calc.u = 20 /\ calc.p = RatInt(180) /\ calc.a = RatInt(200)
                  => r.TotalCost = RatInt(180) /\ r.Outstanding = RatInt(0))

\* C5 witness: Update row has built a row whose balance was clamped to 0.
C5_Witness ==
    /\ calc.op = "update"
    /\ calc.q = 20 /\ calc.u = 20 /\ calc.p = RatInt(180) /\ calc.a = RatInt(200)
    /\ calc.row.TotalCost = RatInt(180)
    /\ calc.row.Outstanding = Zero

\* C6 as stated: with a units-per-pack that is not positive the computation
\* fails with InvalidArgument and yields no totalCost/outstanding pair.
C6_FailsOnNonPositiveUnits ==
    calc.op \in {"calc_add", "calc_edit"} /\ calc.u <= 0
        => calc.out.error = "InvalidArgument"

\* C6 amended: with a units-per-pack that is not positive the computation
\* does not fail; it divides by 1, so totalCost = pricePerPack * quantity and
\* outstanding = max(totalCost - amountPaid, 0).
C6_NonPositiveUnitsClampedToOne ==
    calc.op \in {"calc_add", "calc_edit"} /\ calc.u <= 0 =>
        LET total == Rat(calc.p.n * calc.q, calc.p.d)
            diff == RatSub(total, calc.a)
        IN  /\ calc.out.error = "none"
            /\ calc.out.total_cost = total
            /\ calc.out.outstanding = (IF diff.n >= 0 THEN diff ELSE Zero)

\* C6 witness: the Add tab's expression evaluated with 0 units per pack.
C6_Witness ==
    /\ calc.op = "calc_add" /\ calc.u = 0 /\ calc.q = 10 /\ calc.p = RatInt(200)
    /\ calc.out.error = "none"
    /\ calc.out.total_cost = RatInt(2000)

----------------------------------------------------------------------------
(* search_rows, applied to sheet values and keywords *)

\* str.swapcase() on one character: used to build inputs that differ in
\* letter case only.
SwapChar(c) ==
    IF \E i \in 1..26 : Uppers[i] = c THEN Lowers[CHOOSE i \in 1..26 : Uppers[i] = c]
    ELSE IF \E i \in 1..26 : Lowers[i] = c THEN Uppers[CHOOSE i \in 1..26 : Lowers[i] = c]
    ELSE c

SwapCase(t) == [i \in 1..Len(t) |-> SwapChar(t[i])]

\* k and k2 differ only in the letter case of some characters.
DifferOnlyInCase(k, k2) ==
    /\ Len(k) = Len(k2)
    /\ \A i \in 1..Len(k) : k2[i] = k[i] \/ k2[i] = SwapChar(k[i])

\* The sheet values with every data cell's letters swapped in case.
SwapCaseData(data) ==
    [i \in 1..Len(data) |->
        IF i = 1 THEN data[i] ELSE [j \in 1..Len(data[i]) |-> SwapCase(data[i][j])]]

\* Brand and note texts of the probe sheets, and the keywords searched.
ProbeBrands == { <<"M","a","r","l">>, <<"m","A","R","L">>, <<>> }

ProbeNotes == { <<"a","b"," ","1">>, <<>> }

ProbeKeywords ==
    { <<"m","a","r">>, <<"M","A","R">>, <<"M","a","R">>, <<"A","B">>, <<"a","B">>,
      <<"1">>, <<"b"," ">>, <<"D","A","T","E">>, <<"x">> }

\* The most data rows of a probe sheet.
MaxProbeRows == 2

ProbeRow(brand, notes) ==
    RowCells(tab_add_row(Date1, brand, 1, 20, Zero, Cash, Zero, Empty, notes))

ProbeRows == { ProbeRow(b, n) : b \in ProbeBrands, n \in ProbeNotes }

ProbeSheets ==
    UNION { { <<DEFAULT_COLUMNS>> \o rows : rows \in [1..n -> ProbeRows] } :
            n \in 0..MaxProbeRows }

NoMatches == <<>>

SearchInit ==
    /\ probe \in [data : ProbeSheets, k : ProbeKeywords, k2 : ProbeKeywords,
                  done : {{}}, r1 : {NoMatches}, r2 : {NoMatches}, r3 : {NoMatches}]
    /\ DifferOnlyInCase(probe.k, probe.k2)
    /\ calc = CalcIdle
    /\ agg = AggIdle
    /\ SessionsIdle

\* search_rows(ws, k) on the sheet.
SearchFirst ==
    /\ "r1" \notin probe.done
    /\ probe' = [probe EXCEPT !.done = @ \cup {"r1"},
                              !.r1 = search_rows(probe.data, probe.k)]
    /\ UNCHANGED <<store, cache, sess, hist, calc, agg>>

\* search_rows(ws, k2) on the same sheet.
SearchSecond ==
    /\ "r2" \notin probe.done
    /\ probe' = [probe EXCEPT !.done = @ \cup {"r2"},
                              !.r2 = search_rows(probe.data, probe.k2)]
    /\ UNCHANGED <<store, cache, sess, hist, calc, agg>>

\* search_rows(ws, k) on the sheet whose data cells differ in letter case.
SearchRecased ==
    /\ "r3" \notin probe.done
    /\ probe' = [probe EXCEPT !.done = @ \cup {"r3"},
                              !.r3 = search_rows(SwapCaseData(probe.data), probe.k)]
    /\ UNCHANGED <<store, cache, sess, hist, calc, agg>>

SearchNext == SearchFirst \/ SearchSecond \/ SearchRecased

SpecSearch == SearchInit /\ [][SearchNext]_vars

Indices(matches) == [i \in 1..Len(matches) |-> matches[i][1]]

\* C7: search is case-insensitive: keywords that differ only in letter case
\* give identical sequences of (physical row, row values) on the same sheet,
\* and the rows matched do not depend on the letter case of the stored cells.
C7_SearchCaseInsensitive ==
    /\ {"r1", "r2"} \subseteq probe.done => probe.r1 = probe.r2
    /\ {"r1", "r3"} \subseteq probe.done => Indices(probe.r1) = Indices(probe.r3)

\* C7 witness: "mar" and "MAR" were both searched on a sheet holding "Marl",
\* and both found row 2.
C7_Witness ==
    /\ {"r1", "r2", "r3"} \subseteq probe.done
    /\ probe.k = <<"m","a","r">> /\ probe.k2 = <<"M","A","R">>
    /\ Len(probe.r1) >= 1 /\ probe.r1[1][1] = 2
    /\ probe.r2 = probe.r1
    /\ probe.r3 # probe.r1

----------------------------------------------------------------------------
(* load_df: the records of the sheet as a dataframe *)

Digits == {"0","1","2","3","4","5","6","7","8","9"}

DigitVal(c) == CHOOSE n \in 0..9 : Digit(n) = c

IsDigits(t) == Len(t) > 0 /\ \A i \in 1..Len(t) : t[i] \in Digits

RECURSIVE ParseInt(_)
ParseInt(t) ==
    IF Len(t) = 0 THEN 0
    ELSE 10 * ParseInt(SubSeq(t, 1, Len(t) - 1)) + DigitVal(t[Len(t)])

RECURSIVE Pow10(_)
Pow10(k) == IF k = 0 THEN 1 ELSE 10 * Pow10(k - 1)

\* A column value that is missing: None in a text column.
NoneText == <<"None">>

\* NaT: what pd.to_datetime(errors="coerce") gives for a text that is no date.
NaT == 0

\* NaN: what pd.to_numeric(errors="coerce") gives for a text that is no number.
NaN == [nan |-> TRUE, v |-> Zero]

Num(x) == [nan |-> FALSE, v |-> x]

\* A text of the form YYYY-MM-DD.
IsDateText(t) ==
    /\ Len(t) = 10
    /\ t[5] = "-" /\ t[8] = "-"
    /\ \A i \in {1, 2, 3, 4, 6, 7, 9, 10} : t[i] \in Digits

\* pd.to_datetime(df["Date"], errors="coerce") on one value: the date as the
\* number YYYYMMDD, or NaT.
to_datetime(t) ==
    IF IsDateText(t)
    THEN ParseInt(SubSeq(t, 1, 4) \o SubSeq(t, 6, 7) \o SubSeq(t, 9, 10))
    ELSE NaT

\* pd.to_numeric(df[c], errors="coerce") on one value: digits, or digits "."
\* digits, or NaN.
to_numeric(t) ==
    IF IsDigits(t) THEN Num(RatInt(ParseInt(t)))
    ELSE IF \E i \in 2..(Len(t) - 1) :
                /\ t[i] = "."
                /\ IsDigits(SubSeq(t, 1, i - 1))
                /\ IsDigits(SubSeq(t, i + 1, Len(t)))
         THEN LET i == CHOOSE i \in 2..(Len(t) - 1) : t[i] = "."
                  whole == ParseInt(SubSeq(t, 1, i - 1))
                  frac == SubSeq(t, i + 1, Len(t))
              IN  Num(Rat(whole * Pow10(Len(frac)) + ParseInt(frac), Pow10(Len(frac))))
         ELSE NaN

\* One record of ws.get_all_records() under the sheet's own header, with the
\* columns of DEFAULT_COLUMNS the header lacks backfilled with None, then the
\* type fixes, then df[DEFAULT_COLUMNS].
LoadRecord(header, cells) ==
    LET cell(name) ==
            IF \E j \in 1..Len(header) : header[j] = name /\ j <= Len(cells)
            THEN cells[CHOOSE j \in 1..Len(header) : header[j] = name /\ j <= Len(cells)]
            ELSE NoneText
    IN  [Date |-> to_datetime(cell(DEFAULT_COLUMNS[1])),
         Brand |-> cell(DEFAULT_COLUMNS[2]),
         Quantity |-> to_numeric(cell(DEFAULT_COLUMNS[3])),
         UnitsPerPack |-> to_numeric(cell(DEFAULT_COLUMNS[4])),
         PricePerPack |-> to_numeric(cell(DEFAULT_COLUMNS[5])),
         TotalCost |-> to_numeric(cell(DEFAULT_COLUMNS[6])),
         PaymentMethod |-> cell(DEFAULT_COLUMNS[7]),
         AmountPaid |-> to_numeric(cell(DEFAULT_COLUMNS[8])),
         Outstanding |-> to_numeric(cell(DEFAULT_COLUMNS[9])),
         Vendor |-> cell(DEFAULT_COLUMNS[10]),
         Notes |-> cell(DEFAULT_COLUMNS[11])]

\* The dataframe load_df builds from the sheet's values when the read
\* succeeds: get_all_records skips the header row.
load_df_frame(values) ==
    IF Len(values) <= 1 THEN <<>>
    ELSE [i \in 1..(Len(values) - 1) |-> LoadRecord(values[1], values[i + 1])]

\* The empty dataframe load_df returns when the sheet cannot be opened or read.
EmptyFrame == <<>>

----------------------------------------------------------------------------
(* The analytics tab *)

RatAdd(x, y) == Rat(x.n * y.d + y.n * x.d, x.d * y.d)

\* Series.sum(): NaN is skipped.
RECURSIVE SumColumn(_, _)
SumColumn(rows, col) ==
    IF Len(rows) = 0 THEN Zero
    ELSE LET x == rows[1][col]
         IN  RatAdd(IF x.nan THEN Zero ELSE x.v, SumColumn(Tail(rows), col))

\* dfa = df.copy(); dfa["Date"] = pd.to_datetime(...); dfa.dropna(subset=["Date"])
\* (the dates of df are already datetimes, to_datetime leaves them).
dropna_date(df) == SelectSeq(df, LAMBDA r : r.Date # NaT)

RowsWhere(rows, col, key) == SelectSeq(rows, LAMBDA r : r[col] = key)

\* dfa.groupby("Date", as_index=False).agg(sticks=("Quantity", "sum"),
\* spend=("TotalCost", "sum")): one row per date, dates ascending.
RECURSIVE by_day_from(_, _)
by_day_from(dfa, dates) ==
    IF dates = {} THEN <<>>
    ELSE LET d == CHOOSE x \in dates : \A y \in dates : x <= y
             g == RowsWhere(dfa, "Date", d)
         IN  <<[Date |-> d, sticks |-> SumColumn(g, "Quantity"),
                spend |-> SumColumn(g, "TotalCost")]>>
             \o by_day_from(dfa, dates \ {d})

by_day(dfa) == by_day_from(dfa, {dfa[i].Date : i \in 1..Len(dfa)})

\* dfa.groupby("Brand", as_index=False)["Quantity"].sum(): one row per brand;
\* groupby leaves out the rows whose key is None.
brand_groups(dfa) ==
    { [Brand |-> b, Quantity |-> SumColumn(RowsWhere(dfa, "Brand", b), "Quantity")] :
        b \in {dfa[i].Brand : i \in 1..Len(dfa)} \ {NoneText} }

\* .sort_values("Quantity", ascending=False): the groups, largest sum first.
RECURSIVE sort_desc(_)
sort_desc(groups) ==
    IF groups = {} THEN <<>>
    ELSE LET g == CHOOSE x \in groups : \A y \in groups : RatLE(y.Quantity, x.Quantity)
         IN  <<g>> \o sort_desc(groups \ {g})

by_brand(dfa) == sort_desc(brand_groups(dfa))

\* tab_analytics with the brand view grouped from df instead of dfa.
tab_analytics_brand_from_df(df) ==
    IF Len(df) = 0
    THEN [shown |-> FALSE, by_day |-> <<>>, by_brand |-> <<>>]
    ELSE LET dfa == dropna_date(df)
         IN  [shown |-> TRUE, by_day |-> by_day(dfa), by_brand |-> by_brand(df)]

\* The three views of tab_analytics; none when df.empty.
tab_analytics(df) ==
    IF Len(df) = 0
    THEN [shown |-> FALSE, by_day |-> <<>>, by_brand |-> <<>>]
    ELSE LET dfa == dropna_date(df)
         IN  [shown |-> TRUE, by_day |-> by_day(dfa), by_brand |-> by_brand(dfa)]

----------------------------------------------------------------------------
(* The analytics tab, applied to the dataframe of a given sheet *)

\* A header row that differs from the expected schema: no Brand column.
OtherColumns == [DEFAULT_COLUMNS EXCEPT ![2] = <<"L","a","b","e","l">>]

AggDates == { Date1, Date2, <<"n","/","a">>, <<>> }

AggBrands == { <<"A">>, <<"B">> }

AggQuantities == {3, 5}

\* The most data rows of a sheet given to the analytics tab.
MaxAggRows == 2

AggRows ==
    { RowCells(tab_add_row(d, b, q, 20, RatInt(200), Cash, Zero, Empty, Empty)) :
        d \in AggDates, b \in AggBrands, q \in AggQuantities }

AggSheets ==
    UNION { { <<h>> \o rows : rows \in [1..n -> AggRows], h \in {DEFAULT_COLUMNS, OtherColumns} } :
            n \in 0..MaxAggRows }

NoViews == [shown |-> FALSE, by_day |-> <<>>, by_brand |-> <<>>]

AggInit ==
    /\ agg \in [op : {"input"}, values : AggSheets, df : {EmptyFrame}, views : {NoViews}]
    /\ calc = CalcIdle
    /\ probe = ProbeIdle
    /\ SessionsIdle

\* df = load_df(...), the sheet read without error.
AggLoad ==
    /\ agg.op = "input"
    /\ agg' = [agg EXCEPT !.op = "loaded", !.df = load_df_frame(agg.values)]
    /\ UNCHANGED <<store, cache, sess, hist, calc, probe>>

\* with tab_analytics: ...
AggAnalytics ==
    /\ agg.op = "loaded"
    /\ agg' = [agg EXCEPT !.op = "shown", !.views = tab_analytics(agg.df)]
    /\ UNCHANGED <<store, cache, sess, hist, calc, probe>>

AggNext == AggLoad \/ AggAnalytics

SpecAgg == AggInit /\ [][AggNext]_vars

\* The sum of a column over the rows of df whose index is in I.
RECURSIVE SumIdx(_, _, _)
SumIdx(df, I, col) ==
    IF I = {} THEN Zero
    ELSE LET i == CHOOSE x \in I : TRUE
             x == df[i][col]
         IN  RatAdd(IF x.nan THEN Zero ELSE x.v, SumIdx(df, I \ {i}, col))

\* Views (a) and (b): one entry per parseable date, ascending, each the sum
\* over exactly the rows of that date; rows without a date are in no entry.
DayViewsExcludeUndated(df, v) ==
    /\ {v.by_day[k].Date : k \in 1..Len(v.by_day)}
          = {df[i].Date : i \in 1..Len(df)} \ {NaT}
    /\ \A k \in 1..Len(v.by_day) :
         LET I == {i \in 1..Len(df) : df[i].Date = v.by_day[k].Date}
         IN  /\ v.by_day[k].sticks = SumIdx(df, I, "Quantity")
             /\ v.by_day[k].spend = SumIdx(df, I, "TotalCost")
             /\ \A m \in 1..Len(v.by_day) : k < m => v.by_day[k].Date < v.by_day[m].Date

\* View (c) holds, for every brand present among the rows in Counted, the sum
\* of the quantities of the rows in Counted with that brand, largest first.
BrandViewCounts(df, v, Counted) ==
    /\ {v.by_brand[k].Brand : k \in 1..Len(v.by_brand)}
          = {df[i].Brand : i \in Counted} \ {NoneText}
    /\ \A k \in 1..Len(v.by_brand) :
         /\ v.by_brand[k].Quantity
              = SumIdx(df, {i \in Counted : df[i].Brand = v.by_brand[k].Brand}, "Quantity")
         /\ \A m \in 1..Len(v.by_brand) :
              k < m => RatLE(v.by_brand[m].Quantity, v.by_brand[k].Quantity)

\* C9 as stated: a row with an unparseable date contributes nothing to the
\* per-date sums (a) and (b), but its quantity is counted in the per-brand sum
\* (c) whenever its brand is present.
C9_UndatedRowsCountedByBrand ==
    agg.op = "shown" /\ agg.views.shown =>
        /\ DayViewsExcludeUndated(agg.df, agg.views)
        /\ BrandViewCounts(agg.df, agg.views, 1..Len(agg.df))

\* C9 amended: a row with an unparseable date is left out of all three views:
\* it contributes nothing to (a), (b) or (c); the per-brand sum (c) counts the
\* rows with a parseable date whose brand is present.
C9_UndatedRowsExcludedFromAllViews ==
    agg.op = "shown" /\ agg.views.shown =>
        /\ DayViewsExcludeUndated(agg.df, agg.views)
        /\ BrandViewCounts(agg.df, agg.views,
                           {i \in 1..Len(agg.df) : agg.df[i].Date # NaT})

\* C9 witness: the views of a sheet with a dated row and an undated row of the
\* same brand: the brand's sum is the dated row's quantity alone.
C9_Witness ==
    /\ agg.op = "shown" /\ agg.views.shown
    /\ Len(agg.df) = 2
    /\ agg.df[1].Date = NaT /\ agg.df[1].Brand = <<"A">> /\ agg.df[1].Quantity = Num(RatInt(5))
    /\ agg.df[2].Date # NaT /\ agg.df[2].Brand = <<"A">> /\ agg.df[2].Quantity = Num(RatInt(3))
    /\ Len(agg.views.by_brand) = 1
    /\ agg.views.by_brand[1].Quantity = RatInt(3)
    /\ Len(agg.views.by_day) = 1

----------------------------------------------------------------------------
(* The worksheet's primitives, on the values get_all_values returns *)

BlankRow == [j \in 1..NCols |-> <<>>]

IsBlank(row) == \A j \in 1..Len(row) : row[j] = <<>>

\* get_all_values leaves out the empty rows below the last row with data.
RECURSIVE TrimBlank(_)
TrimBlank(values) ==
    IF Len(values) > 0 /\ IsBlank(values[Len(values)])
    THEN TrimBlank(SubSeq(values, 1, Len(values) - 1))
    ELSE values

\* ws.delete_rows(idx) that takes no row out.
delete_rows_kept(values, idx) == values

\* ws.delete_rows(idx) taking out the row above idx.
delete_rows_above(values, idx) ==
    IF idx - 1 > Len(values) \/ idx <= 1 THEN values
    ELSE TrimBlank(SubSeq(values, 1, idx - 2) \o SubSeq(values, idx, Len(values)))

\* ws.delete_rows(idx): the row at idx goes and the rows below move up; an
\* index below the data deletes an empty row of the grid.
delete_rows(values, idx) ==
    IF idx > Len(values) THEN values
    ELSE TrimBlank(SubSeq(values, 1, idx - 1) \o SubSeq(values, idx + 1, Len(values)))

\* ws.insert_row(row, idx) putting the row one place lower.
insert_row_below(values, cells, idx) ==
    IF idx + 1 > Len(values)
    THEN values \o [j \in 1..(idx - Len(values)) |-> BlankRow] \o <<cells>>
    ELSE SubSeq(values, 1, idx) \o <<cells>> \o SubSeq(values, idx + 1, Len(values))

\* ws.insert_row(row, idx): the row becomes row idx and the rows from idx on
\* move down; below the data, empty rows lie in between.
insert_row(values, cells, idx) ==
    IF idx > Len(values)
    THEN values \o [j \in 1..(idx - 1 - Len(values)) |-> BlankRow] \o <<cells>>
    ELSE SubSeq(values, 1, idx - 1) \o <<cells>> \o SubSeq(values, idx, Len(values))

\* ws.append_row(row): the row goes below the table that starts at A1, which
\* ends at its first empty row.
append_row_values(values, cells) ==
    IF \E i \in 1..Len(values) : IsBlank(values[i])
    THEN [values EXCEPT ![CHOOSE i \in 1..Len(values) :
                             /\ IsBlank(values[i])
                             /\ \A k \in 1..(i - 1) : ~IsBlank(values[k])] = cells]
    ELSE Append(values, cells)

\* What a failing call to the sheet raises.
StoreErrors == {"APIError", "ConnectionError"}

----------------------------------------------------------------------------
(* A session: one run of the script per user interaction *)

NoMsg == [kind |-> "none", text |-> "", detail |-> ""]

\* _err(msg, e) letting the exception through instead of reporting it.
_err_raised(text, e) == [kind |-> "exception", text |-> text, detail |-> e]

\* _err(msg, e): st.error(msg + Details: e)
_err(text, e) == [kind |-> "error", text |-> text, detail |-> e]

toast(text) == [kind |-> "toast", text |-> text, detail |-> ""]

warning(text) == [kind |-> "warning", text |-> text, detail |-> ""]

info(text) == [kind |-> "info", text |-> text, detail |-> ""]

\* The local values of a session between two runs.
IdleSession ==
    [pc |-> "idle", saved |-> FALSE, ret |-> "idle", keyword |-> <<>>,
     viewed |-> FALSE, searched |-> FALSE, matches |-> <<>>, sel_idx |-> 0, sel_row |-> <<>>,
     idx |-> 0, row |-> <<>>, df |-> EmptyFrame, msg |-> NoMsg,
     calls |-> <<>>, fault |-> "none", hit |-> <<>>, appended |-> <<>>,
     before |-> <<>>]

\* hdr: row 1 as the first ensure_headers of the sheet left it.
NoHistory == [hdr |-> <<>>]

Sessions == DOMAIN sess

Set(s, fields) ==
    sess' = [sess EXCEPT ![s] = [f \in DOMAIN @ |->
                                   IF f \in DOMAIN fields THEN fields[f] ELSE @[f]]]

\* clear_cache() leaving the entry in place.
clear_cache_skipped == cache

\* clear_cache(): load_df.clear()
clear_cache == NoCache

\* The most data rows the sheet is let grow to.
MaxRows == 2

\* Brand texts entered in the forms, and keywords entered in the search box.
SessBrands == { <<"A","b">>, <<"a"," ","b">> }

SessKeywords == { <<>>, <<" ">>, <<"A">> }

\* ensure_headers(ws), up to its read: a new run of the script begins with
\* open_sheet; an empty sheet gets the header next, anything else is kept.
EnsureHeaders(s) ==
    /\ sess[s].pc = "idle"
    /\ UNCHANGED <<store, cache, calc, probe, agg>>
    /\ LET fresh == [IdleSession EXCEPT !.appended = sess[s].appended]
       IN
       \/ \E e \in StoreErrors :
            /\ sess' = [sess EXCEPT ![s] = [fresh EXCEPT
                          !.msg = _err("Google Sheets API error (quota/permissions/invalid request).", e)]]
            /\ UNCHANGED hist
       \/ \E e \in StoreErrors :
            /\ sess' = [sess EXCEPT ![s] = [fresh EXCEPT
                          !.msg = _err("Failed to verify/create header row.", e)]]
            /\ UNCHANGED hist
       \/ /\ store = <<>>
          /\ sess' = [sess EXCEPT ![s] = [fresh EXCEPT !.pc = "ensure_append"]]
          /\ UNCHANGED hist
       \/ /\ store # <<>>
          /\ store[1] = DEFAULT_COLUMNS
          /\ sess' = [sess EXCEPT ![s] = [fresh EXCEPT !.pc = "load_df"]]
          /\ hist' = [hist EXCEPT !.hdr = IF @ = <<>> THEN store[1] ELSE @]
       \/ /\ store # <<>>
          /\ store[1] # DEFAULT_COLUMNS
          /\ sess' = [sess EXCEPT ![s] = [fresh EXCEPT
                        !.pc = "load_df",
                        !.msg = warning("Header row differs from expected schema. Using existing headers.")]]
          /\ hist' = [hist EXCEPT !.hdr = IF @ = <<>> THEN store[1] ELSE @]

\* ensure_headers(ws): ws.append_row(DEFAULT_COLUMNS) on the sheet read empty.
EnsureHeadersAppend(s) ==
    /\ sess[s].pc = "ensure_append"
    /\ UNCHANGED <<cache, calc, probe, agg>>
    /\ \/ /\ store' = append_row_values(store, DEFAULT_COLUMNS)
          /\ Set(s, [pc |-> "load_df"])
          /\ hist' = [hist EXCEPT !.hdr = IF @ = <<>> THEN store'[1] ELSE @]
       \/ \E e \in StoreErrors :
            /\ Set(s, [pc |-> "idle", msg |-> _err("Failed to verify/create header row.", e)])
            /\ UNCHANGED <<store, hist>>

\* df = load_df(sheet_url_or_title) under @st.cache_data: the cached frame,
\* or the sheet's records read and cached; a failed open or read returns the
\* empty frame, which is cached as well.
LoadDf(s) ==
    /\ sess[s].pc = "load_df"
    /\ UNCHANGED <<store, hist, calc, probe, agg>>
    /\ \/ /\ cache.valid
          /\ Set(s, [pc |-> "tab_add", df |-> cache.df])
          /\ UNCHANGED cache
       \/ /\ ~cache.valid
          /\ cache' = [valid |-> TRUE, df |-> load_df_frame(store)]
          /\ Set(s, [pc |-> "tab_add", df |-> load_df_frame(store),
                     calls |-> <<"get_all_records">>])
       \/ /\ ~cache.valid
          /\ \E e \in StoreErrors :
               Set(s, [pc |-> "tab_add", df |-> EmptyFrame,
                       calls |-> <<"get_all_records">>, fault |-> "load",
                       msg |-> _err("Failed to read data from Google Sheet.", e)])
          /\ cache' = [valid |-> TRUE, df |-> EmptyFrame]

\* The entry of st.cache_data(ttl=240) expires.
CacheExpire ==
    /\ cache.valid
    /\ cache' = NoCache
    /\ UNCHANGED <<store, sess, hist, calc, probe, agg>>

\* The rows the forms of the session hand to the adapter, as cells.
SaveRows ==
    { RowCells(tab_add_row(Date1, b, 10, 20, RatInt(200), Cash, RatInt(50), Empty, Empty)) :
        b \in SessBrands }

UpdateRows ==
    { RowCells(tab_view_new_row(Date2, <<"A","b">>, 10, 20, RatInt(200), Credit, RatInt(50), Empty, Empty)) }

\* "Save Entry" pressed: the row is built and append_row(ws, row) is called.
SaveEntry(s) ==
    /\ sess[s].pc = "tab_add"
    /\ Len(store) <= MaxRows
    /\ \E row \in SaveRows :
         Set(s, [pc |-> "append_row", ret |-> "tab_view", saved |-> TRUE,
                 row |-> row, appended |-> <<>>, calls |-> <<>>, fault |-> "none"])
    /\ UNCHANGED <<store, cache, hist, calc, probe, agg>>

\* append_row(ws, row)
AppendRow(s) ==
    /\ sess[s].pc = "append_row"
    /\ UNCHANGED <<hist, calc, probe, agg>>
    /\ \/ /\ store' = append_row_values(store, sess[s].row)
          /\ cache' = clear_cache
          /\ Set(s, [pc |-> sess[s].ret, msg |-> toast("Added"),
                     calls |-> Append(sess[s].calls, "append_row"),
                     appended |-> sess[s].row])
       \/ \E e \in StoreErrors :
            /\ Set(s, [pc |-> sess[s].ret, msg |-> _err("Failed to add row.", e),
                       calls |-> Append(sess[s].calls, "append_row"), fault |-> "append"])
            /\ UNCHANGED <<store, cache>>

\* tab_view: the keyword box, search_rows(ws, keyword) "if keyword", and the
\* row selector over the matches.
TabView(s, keyword) ==
    /\ sess[s].pc \in {"tab_add", "tab_view"}
    /\ UNCHANGED <<store, cache, hist, calc, probe, agg>>
    /\ LET seen == IF sess[s].pc = "tab_add" THEN <<>> ELSE sess[s].appended IN
         \/ /\ ~Truthy(keyword)
            /\ Set(s, [pc |-> "idle", keyword |-> keyword, viewed |-> TRUE, appended |-> seen])
         \/ /\ Truthy(keyword)
            /\ \E e \in StoreErrors :
                 Set(s, [pc |-> "idle", keyword |-> keyword, viewed |-> TRUE, searched |-> TRUE,
                         appended |-> seen, calls |-> <<"get_all_values">>,
                         fault |-> "search", msg |-> _err("Failed to search rows.", e)])
         \/ /\ Truthy(keyword)
            /\ search_rows(store, keyword) = <<>>
            /\ Set(s, [pc |-> "idle", keyword |-> keyword, viewed |-> TRUE, searched |-> TRUE,
                       appended |-> seen, calls |-> <<"get_all_values">>,
                       msg |-> info("No matching rows found.")])
         \/ /\ Truthy(keyword)
            /\ LET matches == search_rows(store, keyword)
               IN  \E selected \in 1..Len(matches) :
                     Set(s, [pc |-> "selected", keyword |-> keyword, viewed |-> TRUE, searched |-> TRUE,
                             appended |-> seen, calls |-> <<"get_all_values">>,
                             matches |-> matches,
                             sel_idx |-> matches[selected][1],
                             sel_row |-> matches[selected][2]])

\* "Update row" pressed: the header guard, then replace_row(ws, sel_idx_1based, new_row).
ClickUpdate(s) ==
    /\ sess[s].pc = "selected"
    /\ ~sess[s].saved
    /\ UNCHANGED <<store, cache, hist, calc, probe, agg>>
    /\ \E new_row \in UpdateRows :
         IF sess[s].sel_idx = 1
         THEN Set(s, [pc |-> "idle", msg |-> warning("Header row is protected.")])
         ELSE Set(s, [pc |-> "replace_row", ret |-> "idle", calls |-> <<>>,
                      idx |-> sess[s].sel_idx, row |-> new_row])

\* "Confirm delete" pressed: the header guard, then remove_row(ws, sel_idx_1based).
ClickDelete(s) ==
    /\ sess[s].pc = "selected"
    /\ ~sess[s].saved
    /\ UNCHANGED <<store, cache, hist, calc, probe, agg>>
    /\ IF sess[s].sel_idx = 1
       THEN Set(s, [pc |-> "idle", msg |-> warning("Header row is protected.")])
       ELSE Set(s, [pc |-> "remove_row", ret |-> "idle", calls |-> <<>>,
                    idx |-> sess[s].sel_idx])

\* No button pressed in this run: the script ends after the analytics tab.
NoClick(s) ==
    /\ sess[s].pc = "selected"
    /\ Set(s, [pc |-> "idle"])
    /\ UNCHANGED <<store, cache, hist, calc, probe, agg>>

\* The row ws.delete_rows(idx) takes out of the sheet.
RowAt(values, idx) == IF idx <= Len(values) THEN values[idx] ELSE BlankRow

\* replace_row(ws, idx_1based, row) up to ws.delete_rows(idx_1based).
ReplaceRowDelete(s) ==
    /\ sess[s].pc = "replace_row"
    /\ UNCHANGED <<cache, hist, calc, probe, agg>>
    /\ \/ /\ store' = delete_rows(store, sess[s].idx)
          /\ Set(s, [pc |-> "replace_insert", hit |-> RowAt(store, sess[s].idx),
                     before |-> store,
                     calls |-> Append(sess[s].calls, "delete_rows")])
       \/ \E e \in StoreErrors :
            /\ Set(s, [pc |-> sess[s].ret, msg |-> _err("Failed to update row.", e),
                       calls |-> Append(sess[s].calls, "delete_rows"), fault |-> "delete"])
            /\ UNCHANGED store

\* replace_row from ws.insert_row(row, idx_1based) on: clear_cache() and the
\* toast only when the insert went through.
ReplaceRowInsert(s) ==
    /\ sess[s].pc = "replace_insert"
    /\ UNCHANGED <<hist, calc, probe, agg>>
    /\ \/ /\ store' = insert_row(store, sess[s].row, sess[s].idx)
          /\ cache' = clear_cache
          /\ Set(s, [pc |-> sess[s].ret, msg |-> toast("Updated"),
                     calls |-> Append(sess[s].calls, "insert_row")])
       \/ \E e \in StoreErrors :
            /\ Set(s, [pc |-> sess[s].ret, msg |-> _err("Failed to update row.", e),
                       calls |-> Append(sess[s].calls, "insert_row"), fault |-> "insert"])
            /\ UNCHANGED <<store, cache>>

\* remove_row(ws, idx_1based)
RemoveRow(s) ==
    /\ sess[s].pc = "remove_row"
    /\ UNCHANGED <<hist, calc, probe, agg>>
    /\ \/ /\ store' = delete_rows(store, sess[s].idx)
          /\ cache' = clear_cache
          /\ Set(s, [pc |-> sess[s].ret, msg |-> toast("Deleted"),
                     hit |-> RowAt(store, sess[s].idx), before |-> store,
                     calls |-> Append(sess[s].calls, "delete_rows")])
       \/ \E e \in StoreErrors :
            /\ Set(s, [pc |-> sess[s].ret, msg |-> _err("Failed to delete row.", e),
                       calls |-> Append(sess[s].calls, "delete_rows"), fault |-> "delete"])
            /\ UNCHANGED <<store, cache>>

\* The sheets a session may be pointed at: empty, or a header row (the
\* expected one or another) over the rows saved so far.
InitSheets ==
    {<<>>} \cup
    UNION { { <<h>> \o rows : rows \in [1..n -> SaveRows], h \in {DEFAULT_COLUMNS, OtherColumns} } :
            n \in 0..1 }

SessionInit(n) ==
    /\ store \in InitSheets
    /\ cache = NoCache
    /\ sess = [s \in 1..n |-> IdleSession]
    /\ hist = NoHistory
    /\ calc = CalcIdle
    /\ probe = ProbeIdle
    /\ agg = AggIdle

Init == SessionInit(1)

Next ==
    \/ \E s \in Sessions : EnsureHeaders(s)
    \/ \E s \in Sessions : EnsureHeadersAppend(s)
    \/ \E s \in Sessions : LoadDf(s)
    \/ \E s \in Sessions : SaveEntry(s)
    \/ \E s \in Sessions : AppendRow(s)
    \/ \E s \in Sessions : \E keyword \in SessKeywords : TabView(s, keyword)
    \/ \E s \in Sessions : ClickUpdate(s)
    \/ \E s \in Sessions : ClickDelete(s)
    \/ \E s \in Sessions : NoClick(s)
    \/ \E s \in Sessions : ReplaceRowDelete(s)
    \/ \E s \in Sessions : ReplaceRowInsert(s)
    \/ \E s \in Sessions : RemoveRow(s)
    \/ CacheExpire

\* One session on the sheet.
Spec == Init /\ [][Next]_vars

\* Two sessions on one sheet of three records, each at its View/Edit/Delete
\* tab after ensure_headers and load_df, with the keyword "A" in the box.
SharedSheet ==
    <<DEFAULT_COLUMNS>>
      \o [i \in 1..2 |-> RowCells(tab_add_row(Date1, IF i = 1 THEN <<"A","b">> ELSE <<"a"," ","b">>,
                                                10, 20, RatInt(200), Cash, RatInt(50), Empty, Empty))]
      \o <<RowCells(tab_view_new_row(Date2, <<"A","b">>, 10, 20, RatInt(200), Credit, RatInt(50), Empty, Empty))>>

InitTwo ==
    /\ store = SharedSheet
    /\ cache = [valid |-> TRUE, df |-> load_df_frame(SharedSheet)]
    /\ sess = [s \in 1..2 |-> [IdleSession EXCEPT !.pc = "tab_view", !.df = load_df_frame(SharedSheet)]]
    /\ hist = [hdr |-> DEFAULT_COLUMNS]
    /\ calc = CalcIdle
    /\ probe = ProbeIdle
    /\ agg = AggIdle

NextTwo ==
    \/ \E s \in Sessions : TabView(s, <<"A">>)
    \/ \E s \in Sessions : ClickUpdate(s)
    \/ \E s \in Sessions : ClickDelete(s)
    \/ \E s \in Sessions : NoClick(s)
    \/ \E s \in Sessions : ReplaceRowDelete(s)
    \/ \E s \in Sessions : ReplaceRowInsert(s)
    \/ \E s \in Sessions : RemoveRow(s)

SpecTwo == InitTwo /\ [][NextTwo]_vars

----------------------------------------------------------------------------
(* The adapter functions called directly, with any row index *)

\* append_row, replace_row or remove_row called with a row and a 1-based index.
ApiCall(s) ==
    /\ sess[s].pc = "idle"
    /\ UNCHANGED <<store, cache, hist, calc, probe, agg>>
    /\ \E op \in {"append_row", "replace_row", "remove_row"},
          idx \in 1..(Len(store) + 1),
          row \in SaveRows :
         /\ op = "append_row" => Len(store) <= MaxRows /\ idx = 1
         /\ op = "replace_row" /\ idx > Len(store) => Len(store) <= MaxRows
         /\ op = "remove_row" => row = CHOOSE r \in SaveRows : TRUE
         /\ sess' = [sess EXCEPT ![s] = [IdleSession EXCEPT
                       !.pc = op, !.ret = "idle",
                       !.idx = IF op = "append_row" THEN 0 ELSE idx,
                       !.row = IF op = "remove_row" THEN <<>> ELSE row]]

AdapterSheets ==
    UNION { { <<DEFAULT_COLUMNS>> \o rows : rows \in [1..n -> SaveRows] } : n \in 0..MaxRows }

AdapterInit ==
    /\ store \in AdapterSheets
    /\ cache \in {NoCache, [valid |-> TRUE, df |-> load_df_frame(store)]}
    /\ sess = [s \in 1..1 |-> IdleSession]
    /\ hist = NoHistory
    /\ calc = CalcIdle
    /\ probe = ProbeIdle
    /\ agg = AggIdle

AdapterNext ==
    \/ \E s \in Sessions : ApiCall(s)
    \/ \E s \in Sessions : AppendRow(s)
    \/ \E s \in Sessions : ReplaceRowDelete(s)
    \/ \E s \in Sessions : ReplaceRowInsert(s)
    \/ \E s \in Sessions : RemoveRow(s)

SpecAdapter == AdapterInit /\ [][AdapterNext]_vars

----------------------------------------------------------------------------
(* Properties *)

\* C1: replace_row and remove_row called with physical row 1 fail with a
\* ProtectedRowError and make no call into the store: the step the function
\* takes leaves the sheet, header row included, as it was.
C1_RowOneRejected ==
    [][\A s \in Sessions :
          /\ sess[s].pc \in {"replace_row", "remove_row"}
          /\ sess[s].idx = 1
          /\ sess'[s] # sess[s]
          => /\ store' = store
             /\ sess'[s].calls = <<>>
             /\ sess'[s].msg.text = "ProtectedRowError"]_vars

\* C2: the header row is never an update or delete target: after any run of
\* ensure_headers, Save Entry, search, Update row and Confirm delete of one
\* session, row 1 still holds the header ensure_headers left, every index
\* search_rows returned is >= 2, and every index handed to replace_row or
\* remove_row is >= 2.
C2_HeaderNeverTarget ==
    \A s \in Sessions :
        /\ hist.hdr # <<>> => Len(store) >= 1 /\ store[1] = hist.hdr
        /\ \A k \in 1..Len(sess[s].matches) : sess[s].matches[k][1] >= 2
        /\ sess[s].pc = "selected" => sess[s].sel_idx >= 2
        /\ sess[s].pc \in {"replace_row", "replace_insert", "remove_row"} => sess[s].idx >= 2
        /\ sess[s].idx # 0 => sess[s].idx >= 2

\* C2 witness: a row found by a keyword that the header contains too was
\* updated at its index, and the header ensure_headers created is in row 1.
C2_Witness ==
    /\ hist.hdr = DEFAULT_COLUMNS
    /\ Len(store) >= 2 /\ store[1] = DEFAULT_COLUMNS
    /\ sess[1].keyword = <<"A">>
    /\ sess[1].msg = toast("Updated")
    /\ sess[1].idx = 2
    /\ store[2] = sess[1].row

\* The entry of a written row as load_df returns it under the expected header.
EntryOf(cells) == LoadRecord(DEFAULT_COLUMNS, cells)

Includes(df, cells) == \E i \in 1..Len(df) : df[i] = EntryOf(cells)

C4_PartialFailureDistinct ==
    \A s \in Sessions, t \in Sessions :
        /\ sess[s].pc = "idle" /\ sess[s].calls = <<"delete_rows", "insert_row">>
        /\ sess[s].fault = "insert"
        /\ sess[t].pc = "idle" /\ sess[t].calls = <<"delete_rows">>
        /\ sess[t].fault = "delete" /\ sess[t].idx # 0 /\ sess[t].row # <<>>
        => sess[s].msg # sess[t].msg

\* A keyword with no character other than whitespace (str.strip() is empty).
IsBlankText(t) == \A i \in 1..Len(t) : t[i] = " "

\* C8 as stated: search_rows is called only for a keyword with a character
\* that is not whitespace; for an empty or whitespace-only keyword no read of
\* the sheet for the search happens and no row becomes selectable.
C8_NoSearchOnBlankKeyword ==
    \A s \in Sessions :
        sess[s].viewed /\ IsBlankText(sess[s].keyword)
            => /\ ~sess[s].searched
               /\ sess[s].pc # "selected"
               /\ sess[s].matches = <<>>

\* C8 amended: search_rows is called only for a keyword that is not the empty
\* string; for the empty keyword no read of the sheet for the search happens
\* and no row becomes selectable (a whitespace-only keyword is searched).
C8_NoSearchOnEmptyKeyword ==
    \A s \in Sessions :
        sess[s].viewed /\ sess[s].keyword = <<>>
            => /\ ~sess[s].searched
               /\ sess[s].pc # "selected"
               /\ sess[s].matches = <<>>
               /\ \A i \in 1..Len(sess[s].calls) : sess[s].calls[i] # "get_all_values"

\* C8 witness: the run reached the keyword box with the empty keyword over a
\* sheet with data rows, and ended without a search.
C8_Witness ==
    /\ sess[1].viewed /\ sess[1].keyword = <<>>
    /\ sess[1].pc = "idle" /\ ~sess[1].searched
    /\ Len(store) >= 2
    /\ ~sess[1].saved

\* C10: there is no isolation between sessions. A call of remove_row or
\* replace_row with an index whose row is no longer the one search_rows
\* returned goes through on whatever the index now holds: it either takes out
\* the row at that position and reports no conflict, or fails on the store's
\* own error and leaves the sheet alone; and when replace_row has succeeded
\* the sheet holds the writer's row at that index, whoever wrote there before.
C10_NoIsolation ==
    [][\A s \in Sessions :
          /\ ( /\ sess[s].pc \in {"remove_row", "replace_row"}
               /\ RowAt(store, sess[s].idx) # sess[s].sel_row
               /\ sess'[s] # sess[s]
               => \/ /\ store' = delete_rows(store, sess[s].idx)
                     /\ sess'[s].hit = RowAt(store, sess[s].idx)
                     /\ sess'[s].msg \in {toast("Deleted"), sess[s].msg}
                  \/ /\ store' = store
                     /\ sess'[s].fault = "delete"
                     /\ sess'[s].msg.detail \in StoreErrors )
          /\ ( /\ sess[s].pc = "replace_insert"
               /\ sess'[s].msg = toast("Updated")
               => /\ Len(store') >= sess[s].idx
                  /\ store'[sess[s].idx] = sess[s].row )]_vars

\* C10 witness: session 1 selected record R at row 3, session 2 then deleted
\* row 2, and session 1's delete of row 3 took out the record that had been
\* at row 4: R is still in the sheet and both sessions report success.
C10_Witness ==
    /\ sess[1].pc = "idle" /\ sess[1].msg = toast("Deleted")
    /\ sess[1].sel_idx = 3 /\ sess[1].sel_row = SharedSheet[3]
    /\ sess[1].hit = SharedSheet[4]
    /\ sess[2].pc = "idle" /\ sess[2].msg = toast("Deleted")
    /\ sess[2].idx = 2 /\ sess[2].hit = SharedSheet[2]
    /\ store = <<SharedSheet[1], SharedSheet[3]>>

NoRepeat(calls) == \A i, j \in 1..Len(calls) : calls[i] = calls[j] => i = j

\* C11: store failures are caught and never retried. A step of load_df,
\* append_row, replace_row, remove_row or search_rows in which a store call
\* fails ends with the error reported to the user and control back in the
\* script; a failed append or remove leaves the sheet as it was; and the calls
\* one invocation issues never name a store primitive twice.
C11_CaughtNeverRetried ==
    [][\A s \in Sessions :
          /\ ( sess'[s].fault # sess[s].fault /\ sess'[s].fault # "none"
               => /\ sess'[s].msg.kind = "error"
                  /\ sess'[s].msg.detail \in StoreErrors
                  /\ sess'[s].pc \in {"idle", "tab_add", "tab_view"}
                  /\ sess[s].pc \in {"append_row", "remove_row"} => store' = store )
          /\ NoRepeat(sess'[s].calls)
          /\ Len(sess'[s].calls) <= Len(sess[s].calls) + 1]_vars

\* C11 witness: a delete whose one delete_rows call failed: the error is shown
\* and the selected row is still in the sheet.
C11_Witness ==
    /\ sess[1].pc = "idle" /\ sess[1].fault = "delete"
    /\ sess[1].row = <<>>
    /\ sess[1].msg.text = "Failed to delete row." /\ sess[1].msg.kind = "error"
    /\ sess[1].calls = <<"delete_rows">>
    /\ Len(store) >= sess[1].idx /\ store[sess[1].idx] = sess[1].sel_row

\* C12: a successful replace_row(p, entry) with 2 <= p <= last row replaces
\* the row in place: the sheet has as many rows as before the call, row p
\* holds the entry's 11 values, and every other row, the header included, is
\* where it was with the contents it had.
C12_ReplaceInPlace ==
    \A s \in Sessions :
        /\ sess[s].pc = "idle" /\ sess[s].msg = toast("Updated")
        /\ 2 <= sess[s].idx /\ sess[s].idx <= Len(sess[s].before)
        => /\ Len(store) = Len(sess[s].before)
           /\ store[sess[s].idx] = sess[s].row
           /\ Len(store[sess[s].idx]) = NCols
           /\ \A q \in 1..Len(store) : q # sess[s].idx => store[q] = sess[s].before[q]

\* C12 witness: row 2 of a sheet of three rows was replaced by a row that
\* differs from it; rows 1 and 3 are as they were.
C12_Witness ==
    /\ sess[1].pc = "idle" /\ sess[1].msg = toast("Updated")
    /\ sess[1].idx = 2 /\ Len(sess[1].before) = 3
    /\ sess[1].before[2] # sess[1].row
    /\ sess[1].before[3] # sess[1].before[2]
    /\ store = <<sess[1].before[1], sess[1].row, sess[1].before[3]>>

\* C13: a successful remove_row(p) with 2 <= p <= last row deletes exactly one
\* physical row: the sheet has one row fewer, rows 1..p-1 are as they were,
\* and each row that was at q > p is at q-1 with the contents it had.
C13_RemoveShiftsUp ==
    \A s \in Sessions :
        /\ sess[s].pc = "idle" /\ sess[s].msg = toast("Deleted")
        /\ 2 <= sess[s].idx /\ sess[s].idx <= Len(sess[s].before)
        => /\ Len(store) = Len(sess[s].before) - 1
           /\ \A q \in 1..(sess[s].idx - 1) : store[q] = sess[s].before[q]
           /\ \A q \in (sess[s].idx + 1)..Len(sess[s].before) : store[q - 1] = sess[s].before[q]

\* C13 witness: row 2 of a sheet of three rows was removed, and the row that
\* was at 3, a different one, is now at 2.
C13_Witness ==
    /\ sess[1].pc = "idle" /\ sess[1].msg = toast("Deleted")
    /\ sess[1].idx = 2 /\ Len(sess[1].before) = 3
    /\ sess[1].before[2] # sess[1].before[3]
    /\ sess[1].hit = sess[1].before[2]
    /\ store = <<sess[1].before[1], sess[1].before[3]>>

\* The row has a cell in which k occurs as a contiguous run of characters,
\* letter case apart.
HasFolded(k, row) ==
    \E j \in 1..Len(row) : \E off \in 0..(Len(row[j]) - Len(k)) :
        \A c \in 1..Len(k) : LowerChar(row[j][off + c]) = LowerChar(k[c])

\* C14: search_rows(k) for a non-empty k returns exactly the data rows with a
\* cell that contains k after case folding, each paired with its physical
\* position p = i + 2 (i its zero-based index among the data rows), in
\* strictly ascending order of p, the header row never among them, and the
\* values returned for p are the sheet's row p.
C14_SearchExactRows ==
    "r1" \in probe.done /\ Len(probe.k) > 0 =>
        LET r == probe.r1
            rows == SubSeq(probe.data, 2, Len(probe.data))
        IN  /\ \A m \in 1..Len(r) :
                  /\ r[m][1] >= 2 /\ r[m][1] <= Len(probe.data)
                  /\ r[m][2] = probe.data[r[m][1]]
                  /\ r[m][2] = rows[r[m][1] - 2 + 1]
            /\ \A m \in 1..(Len(r) - 1) : r[m][1] < r[m + 1][1]
            /\ { r[m][1] : m \in 1..Len(r) }
                  = { i + 2 : i \in { i \in 0..(Len(rows) - 1) : HasFolded(probe.k, rows[i + 1]) } }

\* C14 witness: "AB" searched on a sheet whose second data row alone has a
\* note "ab 1": the one match is physical row 3 with that row's values.
C14_Witness ==
    /\ "r1" \in probe.done
    /\ probe.k = <<"A","B">>
    /\ Len(probe.data) = 3
    /\ probe.data[2][11] = <<>> /\ probe.data[3][11] = <<"a","b"," ","1">>
    /\ probe.r1 = << <<3, probe.data[3]>> >>

\* C15: cache coherence after every write path, one session and no other
\* writer: once append_row, replace_row or remove_row has returned, a snapshot
\* in the load_df cache is a snapshot of the sheet as it now is, so the next
\* load_df returns the sheet's current data rows; in particular when
\* replace_row's delete step succeeded and its insert step failed. (Calls on
\* data rows: a call on row 1 changes the header the records are read under.)
C15_CacheCoherentAfterWrite ==
    \A s \in Sessions :
        /\ sess[s].pc = "idle" /\ sess[s].calls # <<>>
        /\ sess[s].idx # 1
        /\ cache.valid
        => cache.df = load_df_frame(store)

====
